---- MODULE Spec2Model ----
(***************************************************************************)
(* Temporary download links of the consultancy backend (src/server.js).   *)
(*                                                                         *)
(* The registry `tempLinks` is a Map from link identifiers to records      *)
(* {files, createdAt, downloads, maxDownloads, expiresAt, active}.  The    *)
(* uploaded files live on disk (`storage`).  Two specifications are given: *)
(*   Spec     the HTTP server: the consultancy form, the three download    *)
(*            routes and the hourly cleanup timer;                         *)
(*   ApiSpec  the four registry functions called directly with arbitrary   *)
(*            arguments (generateTempLink, validateTempLink,               *)
(*            incrementDownload, cleanupExpiredLinks).                     *)
(* Node.js runs every synchronous stretch of a handler to completion, so   *)
(* validate, consume and sweep never interleave inside one action.         *)
(*                                                                         *)
(* The registry lookup (consultarCNPJ) and the score engine                *)
(* (calcularScoreEstimado) have specifications of their own:               *)
(*   LookupSpec      one call of consultarCNPJ after another, each provider*)
(*                   request and each reply being a step;                  *)
(*   LookupFairSpec  LookupSpec with the fairness the event loop gives;    *)
(*   ScoreSpec       calcularScoreEstimado applied to a profile.           *)
(***************************************************************************)
EXTENDS Integers, Sequences, FiniteSets, TLC

VARIABLES
    tempLinks,  \* the Map: a function whose domain is the set of keys
    storage,    \* the paths that exist in the uploads directory
    now,        \* the clock, in milliseconds since the process started
    res,        \* the last operation performed and what it answered
    lookup,     \* the call of consultarCNPJ in progress, or its result
    scoring     \* the call of calcularScoreEstimado and what it returned

vars == <<tempLinks, storage, now, res, lookup, scoring>>

----------------------------------------------------------------------------
(* Bounds of the model *)

MaxTicks == 1          \* the clock advances at most this many times
TickHours == 49        \* each advance of the clock, in hours
MaxConsume == 2        \* ApiSpec: direct incrementDownload calls stop here

(* Program constants *)

HourMs == 3600000      \* expirationHours * 60 * 60 * 1000
RouteMaxDownloads == 5 \* generateTempLink(req.files, 5, 48)
RouteExpirationHours == 48

LinkIds == {"A1", "B2"}   \* values of crypto.randomBytes(8) in hex

\* file names are sequences of characters
Names == {<<"a">>, <<"#">>, <<"_">>}
SafeChars == {"a", ".", "-"}

\* the file lists a client uploads with one form
UploadChoices == {<< >>, << <<"a">>, <<"#">> >>}

\* arguments tried by direct callers of generateTempLink
ApiMaxDownloads == {1}
ApiExpirationHours == {0, 48}

FileNotFound == "Arquivo nao encontrado"
FileMissing == "Arquivo nao existe no servidor"
DownloadError == "Erro no download do arquivo"
\* the reasons validateTempLink gives (written here without accents)
ReasonNotFound == "Link nao encontrado"
ReasonDeactivated == "Link desativado"
ReasonExpired == "Link expirado"
ReasonLimit == "Limite de downloads atingido"
NoReason == ""
NoLink == "null"

----------------------------------------------------------------------------
(* Uploads: multer.diskStorage *)

\* file.originalname.replace(/[^a-zA-Z0-9.-]/g, '_')
Sanitize(name) ==
    [i \in DOMAIN name |-> IF name[i] \in SafeChars THEN name[i] ELSE "_"]

\* filename: `${Date.now()}_${originalName}` inside the uploads directory
UploadPath(t, name) == <<t, Sanitize(name)>>

\* req.files as multer leaves it: one entry per uploaded file
UploadedFiles(names, t) ==
    [i \in DOMAIN names |-> [originalname |-> names[i], path |-> UploadPath(t, names[i])]]

PathsOf(files) == {files[i].path : i \in DOMAIN files}

----------------------------------------------------------------------------
(* The registry functions *)

generateTempLink(links, linkId, files, maxDownloads, expirationHours, t) ==
    [id \in DOMAIN links \cup {linkId} |->
        IF id = linkId
        THEN [files |-> files,
              createdAt |-> t,
              downloads |-> 0,
              maxDownloads |-> maxDownloads,
              expiresAt |-> t + expirationHours * HourMs,
              active |-> TRUE]
        ELSE links[id]]

\* link.active = false left out
DeactivateForgotten(links, linkId) == links

\* link.active = false
Deactivate(links, linkId) == [links EXCEPT ![linkId].active = FALSE]

\* validateTempLink with the limit test written `>` instead of `>=`
validateTempLinkLimitOffByOne(links, linkId, t) ==
    IF linkId \notin DOMAIN links
    THEN [valid |-> FALSE, reason |-> ReasonNotFound, links |-> links]
    ELSE IF ~links[linkId].active
    THEN [valid |-> FALSE, reason |-> ReasonDeactivated, links |-> links]
    ELSE IF t > links[linkId].expiresAt
    THEN [valid |-> FALSE, reason |-> ReasonExpired, links |-> Deactivate(links, linkId)]
    ELSE IF links[linkId].downloads > links[linkId].maxDownloads
    THEN [valid |-> FALSE, reason |-> ReasonLimit, links |-> Deactivate(links, linkId)]
    ELSE [valid |-> TRUE, reason |-> NoReason, links |-> links]

\* validateTempLink with the limit test placed before the expiry test
validateTempLinkLimitFirst(links, linkId, t) ==
    IF linkId \notin DOMAIN links
    THEN [valid |-> FALSE, reason |-> ReasonNotFound, links |-> links]
    ELSE IF ~links[linkId].active
    THEN [valid |-> FALSE, reason |-> ReasonDeactivated, links |-> links]
    ELSE IF links[linkId].downloads >= links[linkId].maxDownloads
    THEN [valid |-> FALSE, reason |-> ReasonLimit, links |-> Deactivate(links, linkId)]
    ELSE IF t > links[linkId].expiresAt
    THEN [valid |-> FALSE, reason |-> ReasonExpired, links |-> Deactivate(links, linkId)]
    ELSE [valid |-> TRUE, reason |-> NoReason, links |-> links]

\* the answer, and the registry as the call leaves it
validateTempLink(links, linkId, t) ==
    IF linkId \notin DOMAIN links
    THEN [valid |-> FALSE, reason |-> ReasonNotFound, links |-> links]
    ELSE IF ~links[linkId].active
    THEN [valid |-> FALSE, reason |-> ReasonDeactivated, links |-> links]
    ELSE IF t > links[linkId].expiresAt
    THEN [valid |-> FALSE, reason |-> ReasonExpired, links |-> Deactivate(links, linkId)]
    ELSE IF links[linkId].downloads >= links[linkId].maxDownloads
    THEN [valid |-> FALSE, reason |-> ReasonLimit, links |-> Deactivate(links, linkId)]
    ELSE [valid |-> TRUE, reason |-> NoReason, links |-> links]

\* link.downloads++ left out
incrementDownloadForgotten(links, linkId) == links

\* incrementDownload refusing to count past the limit
incrementDownloadGuarded(links, linkId) ==
    IF linkId \in DOMAIN links /\ links[linkId].downloads < links[linkId].maxDownloads
    THEN [links EXCEPT ![linkId].downloads = @ + 1]
    ELSE links

incrementDownload(links, linkId) ==
    IF linkId \in DOMAIN links
    THEN [links EXCEPT ![linkId].downloads = @ + 1]
    ELSE links

\* the cleanup test without `|| !link.active`
CleanupConditionExpiredOnly(link, t) == t > link.expiresAt

\* the condition under which cleanupExpiredLinks removes a record
CleanupCondition(link, t) == t > link.expiresAt \/ ~link.active

CleanupVictims(links, t) == {id \in DOMAIN links : CleanupCondition(links[id], t)}

\* the paths cleanupExpiredLinks tries to unlink: those that exist
CleanupPaths(links, t, disk) ==
    (UNION {PathsOf(links[id].files) : id \in CleanupVictims(links, t)}) \cap disk

cleanupExpiredLinks(links, t) ==
    [id \in DOMAIN links \ CleanupVictims(links, t) |-> links[id]]

----------------------------------------------------------------------------
(* What an operation answered *)

\* no call of the lookup or of the score engine has been made
NoCall == [pc |-> "idle"]

Answer(op, linkId, status, valid, reason) ==
    [op |-> op, linkId |-> linkId, status |-> status, valid |-> valid, reason |-> reason]

Init ==
    /\ tempLinks = << >>
    /\ storage = {}
    /\ now = 0
    /\ res = Answer("start", NoLink, 0, FALSE, NoReason)
    /\ lookup = NoCall
    /\ scoring = NoCall

\* time passes
Tick ==
    /\ now < MaxTicks * TickHours * HourMs
    /\ now' = now + TickHours * HourMs
    /\ res' = Answer("tick", NoLink, 0, FALSE, NoReason)
    /\ UNCHANGED <<tempLinks, storage, lookup, scoring>>

----------------------------------------------------------------------------
(* POST /api/consultoria *)

\* cleanupFiles(files): every existing file is unlinked; unlinkSync may throw
\* for any of them (`failed`), which is caught per file
cleanupFiles(disk, files, failed) == disk \ ((PathsOf(files) \cap disk) \ failed)

\* upload.array('documentos', 10) stores the files and the handler runs.  Its
\* awaits (consultarCNPJ, sendMail) touch neither the registry nor the uploads,
\* so the handler is one step, taken at the instant it issues the link:
\*   a form that fails validateFormData: cleanupFiles(req.files), answer 400;
\*   a valid form with files: generateTempLink(req.files, 5, 48), files kept;
\*   a valid form without files: no link, nothing to clean up.
\* `throws` is the try block throwing, which the catch block answers with
\* cleanupFiles(req.files) and 500.  For a form that is not valid it is
\* validateFormData that throws (`trim` called on a field sent twice, an
\* array); for a valid form nothing between validation and generateTempLink
\* can throw, so the throw comes once the link is issued (`replace` called on
\* outrosDocumentos sent twice, while the email is built).
PostConsultoria(names, isValid, throws) ==
    LET files == UploadedFiles(names, now)
        disk == storage \cup PathsOf(files)
    IN /\ IF ~isValid
          THEN /\ \E failed \in SUBSET PathsOf(files) :
                      storage' = cleanupFiles(disk, files, failed)
               /\ tempLinks' = tempLinks
               /\ res' = Answer("post", NoLink, IF throws THEN 500 ELSE 400,
                                FALSE, NoReason)
          ELSE IF Len(files) > 0
          THEN \E linkId \in LinkIds :
                 /\ tempLinks' = generateTempLink(tempLinks, linkId, files,
                                     RouteMaxDownloads, RouteExpirationHours, now)
                 /\ IF throws
                    THEN /\ \E failed \in SUBSET PathsOf(files) :
                                storage' = cleanupFiles(disk, files, failed)
                         /\ res' = Answer("post", NoLink, 500, FALSE, NoReason)
                    ELSE /\ storage' = disk
                         /\ res' = Answer("post", linkId, 200, FALSE, NoReason)
          ELSE /\ storage' = disk
               /\ tempLinks' = tempLinks
               /\ res' = Answer("post", NoLink, IF throws THEN 500 ELSE 200,
                                FALSE, NoReason)
       /\ UNCHANGED <<now, lookup, scoring>>

----------------------------------------------------------------------------
(* The download routes *)

\* GET /download/:linkId
DownloadPage(linkId) ==
    LET validation == validateTempLink(tempLinks, linkId, now)
    IN /\ tempLinks' = validation.links
       /\ res' = Answer("page", linkId, IF validation.valid THEN 200 ELSE 404,
                        validation.valid, validation.reason)
       /\ UNCHANGED <<storage, now, lookup, scoring>>

\* link.files.find(f => f.originalname === filename)
HasFile(link, filename) == \E i \in DOMAIN link.files : link.files[i].originalname = filename

FindFile(link, filename) ==
    LET i == CHOOSE k \in DOMAIN link.files :
                 /\ link.files[k].originalname = filename
                 /\ \A j \in 1..(k - 1) : link.files[j].originalname # filename
    IN link.files[i]

\* GET /download/:linkId/file/:filename.  The names tried hold no '%', so
\* decodeURIComponent(filename) is the name itself.  The counter is raised
\* before res.download starts sending; when the transfer fails (`sent` is
\* false) the callback answers 500 and the counter stays raised.
DownloadFile(linkId, filename) ==
    LET validation == validateTempLink(tempLinks, linkId, now)
    IN /\ IF ~validation.valid
          THEN /\ tempLinks' = validation.links
               /\ res' = Answer("file", linkId, 404, FALSE, validation.reason)
          ELSE IF ~HasFile(tempLinks[linkId], filename)
          THEN /\ tempLinks' = validation.links
               /\ res' = Answer("file", linkId, 404, TRUE, FileNotFound)
          ELSE IF FindFile(tempLinks[linkId], filename).path \notin storage
          THEN /\ tempLinks' = validation.links
               /\ res' = Answer("file", linkId, 404, TRUE, FileMissing)
          ELSE \E sent \in BOOLEAN :
                 /\ tempLinks' = incrementDownload(validation.links, linkId)
                 /\ res' = Answer("file", linkId, IF sent THEN 200 ELSE 500, TRUE,
                                  IF sent THEN NoReason ELSE DownloadError)
       /\ UNCHANGED <<storage, now, lookup, scoring>>

\* GET /download/:linkId/zip: counts a download and answers with the list of
\* single-file URLs
DownloadZip(linkId) ==
    LET validation == validateTempLink(tempLinks, linkId, now)
    IN /\ IF ~validation.valid
          THEN /\ tempLinks' = validation.links
               /\ res' = Answer("zip", linkId, 404, FALSE, validation.reason)
          ELSE /\ tempLinks' = incrementDownload(validation.links, linkId)
               /\ res' = Answer("zip", linkId, 200, TRUE, NoReason)
       /\ UNCHANGED <<storage, now, lookup, scoring>>

----------------------------------------------------------------------------
(* setInterval(cleanupExpiredLinks, 60 * 60 * 1000) *)

\* fs.unlinkSync over `paths` with the throw caught per file, and the loop gone
\* wrong: the first throw ends it and nothing is unlinked
unlinkSyncAbortsOnThrow(disk, paths, failed) ==
    IF failed = {} THEN disk \ paths ELSE disk

\* fs.unlinkSync over `paths`, each call inside its own try/catch: the files
\* for which it throws (`failed`) stay, every other one is unlinked
unlinkSync(disk, paths, failed) == disk \ (paths \ failed)

\* every existing file of every expired or inactive record is unlinked (any
\* unlinkSync may throw, which is caught per file and logged) and the record is
\* deleted; the status of the answer is the number of errors logged
Cleanup ==
    /\ \E failed \in SUBSET CleanupPaths(tempLinks, now, storage) :
          /\ storage' = unlinkSync(storage, CleanupPaths(tempLinks, now, storage), failed)
          /\ res' = Answer("sweep", NoLink, Cardinality(failed), FALSE, NoReason)
    /\ tempLinks' = cleanupExpiredLinks(tempLinks, now)
    /\ UNCHANGED <<now, lookup, scoring>>

Next ==
    \/ Tick
    \/ \E names \in UploadChoices, isValid, throws \in BOOLEAN :
          PostConsultoria(names, isValid, throws)
    \/ \E linkId \in LinkIds : DownloadPage(linkId)
    \/ \E linkId \in LinkIds, filename \in Names : DownloadFile(linkId, filename)
    \/ \E linkId \in LinkIds : DownloadZip(linkId)
    \/ Cleanup

Spec == Init /\ [][Next]_vars

----------------------------------------------------------------------------
(* The registry functions called directly *)

\* generateTempLink(files, maxDownloads, expirationHours) on files that were
\* just stored; linkId is the value crypto.randomBytes(8) returns
ApiIssue(linkId, names, maxDownloads, expirationHours) ==
    /\ storage' = storage \cup PathsOf(UploadedFiles(names, now))
    /\ tempLinks' = generateTempLink(tempLinks, linkId, UploadedFiles(names, now),
                                     maxDownloads, expirationHours, now)
    /\ res' = Answer("issue", linkId, 0, FALSE, NoReason)
    /\ UNCHANGED <<now, lookup, scoring>>

ApiValidate(linkId) ==
    LET validation == validateTempLink(tempLinks, linkId, now)
    IN /\ tempLinks' = validation.links
       /\ res' = Answer("validate", linkId, 0, validation.valid, validation.reason)
       /\ UNCHANGED <<storage, now, lookup, scoring>>

\* incrementDownload(linkId), with no validate before it
ApiConsume(linkId) ==
    /\ linkId \in DOMAIN tempLinks => tempLinks[linkId].downloads < MaxConsume
    /\ tempLinks' = incrementDownload(tempLinks, linkId)
    /\ res' = Answer("consume", linkId, 0, FALSE, NoReason)
    /\ UNCHANGED <<storage, now, lookup, scoring>>

ApiNext ==
    \/ Tick
    \/ \E linkId \in LinkIds, names \in UploadChoices,
          maxDownloads \in ApiMaxDownloads, expirationHours \in ApiExpirationHours :
            ApiIssue(linkId, names, maxDownloads, expirationHours)
    \/ \E linkId \in LinkIds : ApiValidate(linkId)
    \/ \E linkId \in LinkIds : ApiConsume(linkId)
    \/ Cleanup

ApiSpec == Init /\ [][ApiNext]_vars

----------------------------------------------------------------------------
(* JSON values and text, as JavaScript treats them *)

\* a text is the sequence of its characters
Str(chars) == [type |-> "string", chars |-> chars]
Num(n) == [type |-> "number", value |-> n]
Obj(members) == [type |-> "object", members |-> members]
Arr(items) == [type |-> "array", items |-> items]
Null == [type |-> "null"]
Undefined == [type |-> "undefined"]
EmptyText == Str(<< >>)

\* what `if (v)`, `!v`, `v || w` and `v && w` test
Truthy(v) ==
    CASE v.type = "string" -> v.chars # << >>
      [] v.type = "number" -> v.value # 0
      [] v.type \in {"object", "array"} -> TRUE
      [] OTHER -> FALSE

\* v || w
Or(v, w) == IF Truthy(v) THEN v ELSE w

\* data.name, and data?.name when data is not an object
Member(data, name) ==
    IF data.type = "object" /\ name \in DOMAIN data.members
    THEN data.members[name]
    ELSE Undefined

DigitChars == <<"0", "1", "2", "3", "4", "5", "6", "7", "8", "9">>
Digits == {DigitChars[k] : k \in DOMAIN DigitChars}
DigitValue(c) == (CHOOSE k \in DOMAIN DigitChars : DigitChars[k] = c) - 1

\* (n).toString() of a non-negative whole number
RECURSIVE Decimal(_)
Decimal(n) ==
    IF n < 10 THEN <<DigitChars[n + 1]>>
    ELSE Decimal(n \div 10) \o <<DigitChars[(n % 10) + 1]>>

\* `${v}` and v.toString()
ToText(v) ==
    CASE v.type = "string" -> v.chars
      [] v.type = "number" -> Decimal(v.value)
      [] v.type = "null" -> <<"n", "u", "l", "l">>
      [] v.type = "undefined" -> <<"u", "n", "d", "e", "f", "i", "n", "e", "d">>
      [] OTHER -> <<"[", "o", "b", "j", "e", "c", "t", "]">>

----------------------------------------------------------------------------
(* consultarCNPJ: the registry lookup *)

CnpjDigits == 14       \* cnpjLimpo.length !== 14

\* only the punctuation of a formatted CNPJ removed
OnlyDigitsPunctuationOnly(cnpj) == SelectSeq(cnpj, LAMBDA c : c \notin {".", "/", "-"})

\* cnpj.replace(/[^\d]/g, '')
OnlyDigits(cnpj) == SelectSeq(cnpj, LAMBDA c : c \in Digits)

\* the identifiers callers pass: "11.222.333/0001-81", the same without
\* punctuation, with a digit less or more, with a letter for the last digit,
\* a word, the empty string
Identifiers ==
    { <<"1","1",".","2","2","2",".","3","3","3","/","0","0","0","1","-","8","1">>,
      <<"1","1","2","2","2","3","3","3","0","0","0","1","8","1">>,
      <<"1","1",".","2","2","2",".","3","3","3","/","0","0","0","1","-","8">>,
      <<"1","1","2","2","2","3","3","3","0","0","0","1","8","1","9">>,
      <<"1","1","2","2","2","3","3","3","0","0","0","1","8","x">>,
      <<"c","n","p","j">>,
      << >> }

\* const apis = [...]
apis ==
    << [name |-> "BrasilAPI", official |-> TRUE],
       [name |-> "ReceitaWS", official |-> FALSE],
       [name |-> "CNPJ.ws", official |-> FALSE] >>

SourceValidation == "validacao"
SourceAllFailed == "todas_apis_falharam"

\* the result of a call with a malformed identifier
ValidationFailure ==
    [success |-> FALSE, error |-> "CNPJ deve ter 14 digitos", source |-> SourceValidation]

\* the aggregate failure without its timestamp
AllFailedNoTimestamp(t) ==
    [success |-> FALSE, error |-> "Todas as APIs estao indisponiveis",
     source |-> SourceAllFailed]

\* the result when no provider served
AllFailed(t) ==
    [success |-> FALSE, error |-> "Todas as APIs estao indisponiveis",
     source |-> SourceAllFailed, consultedAt |-> t]

SeparatorText == <<" ", "-", " ">>

\* `${a} - ${b}`
Descriptor(a, b) == Str(ToText(a) \o SeparatorText \o ToText(b))

\* data.qsa.map(socio => ...) reads a property of every entry and throws a
\* TypeError on an entry that is null
MapThrows(list) ==
    /\ list.type = "array"
    /\ \E k \in DOMAIN list.items : list.items[k].type \in {"null", "undefined"}

IncompleteData == [success |-> FALSE, error |-> "Dados incompletos retornados pela API"]
ProcessingError == [success |-> FALSE, error |-> "Erro ao processar dados da API"]

\* The profile normalizarDadosCNPJ builds before its final test.  Of the
\* canonical shape the fields kept are the legal name and those the score engine
\* reads; the others are copied the same way and read by the e-mail only.
NormalizedFields(data, apiName) ==
    IF apiName = "BrasilAPI"
    THEN [success |-> TRUE,
          razaoSocial |-> Or(Or(Member(data, "razao_social"),
                                Member(Member(data, "company"), "name")), EmptyText),
          situacao |-> Or(Or(Member(data, "descricao_situacao_cadastral"),
                             Member(data, "status")), EmptyText),
          dataAbertura |-> Or(Or(Member(data, "data_inicio_atividade"),
                                 Member(data, "founded")), EmptyText),
          capitalSocial |-> Or(Member(data, "capital_social"), EmptyText),
          atividadePrincipal |->
              IF Truthy(Member(data, "cnae_fiscal_principal"))
              THEN Descriptor(Member(Member(data, "cnae_fiscal_principal"), "codigo"),
                              Member(Member(data, "cnae_fiscal_principal"), "descricao"))
              ELSE EmptyText,
          endereco |-> [logradouro |-> Or(Member(data, "logradouro"), EmptyText),
                        cep |-> Or(Member(data, "cep"), EmptyText)]]
    ELSE IF apiName = "ReceitaWS"
    THEN [success |-> TRUE,
          razaoSocial |-> Or(Member(data, "nome"), EmptyText),
          situacao |-> Or(Member(data, "situacao"), EmptyText),
          dataAbertura |-> Or(Member(data, "abertura"), EmptyText),
          capitalSocial |-> Or(Member(data, "capital_social"), EmptyText),
          atividadePrincipal |->
              IF /\ Member(data, "atividade_principal").type = "array"
                 /\ Len(Member(data, "atividade_principal").items) > 0
              THEN Descriptor(Member(Member(data, "atividade_principal").items[1], "code"),
                              Member(Member(data, "atividade_principal").items[1], "text"))
              ELSE EmptyText,
          endereco |-> [logradouro |-> Or(Member(data, "logradouro"), EmptyText),
                        cep |-> Or(Member(data, "cep"), EmptyText)]]
    ELSE [success |-> TRUE,
          razaoSocial |-> EmptyText,
          situacao |-> EmptyText,
          dataAbertura |-> EmptyText,
          capitalSocial |-> EmptyText,
          atividadePrincipal |-> EmptyText,
          endereco |-> [logradouro |-> EmptyText, cep |-> EmptyText]]

normalizarDadosCNPJ(data, apiName) ==
    IF apiName \in {"BrasilAPI", "ReceitaWS"} /\ MapThrows(Member(data, "qsa"))
    THEN ProcessingError
    ELSE IF ~Truthy(NormalizedFields(data, apiName).razaoSocial)
    THEN IncompleteData
    ELSE NormalizedFields(data, apiName)

\* texts the providers send
ACME == Str(<<"A", "C", "M", "E">>)
ATIVA == Str(<<"A", "T", "I", "V", "A">>)
ERROR == Str(<<"E", "R", "R", "O", "R">>)
OK == Str(<<"O", "K">>)
Rua == Str(<<"R", "u", "a">>)
Cep == Str(<<"0", "1", "0", "0", "1">>)
Software == Str(<<"s", "o", "f", "t", "w", "a", "r", "e">>)
IsoDate == Str(<<"2", "0", "1", "0", "-", "0", "1", "-", "0", "1">>)
SlashDate == Str(<<"2", "0", "/", "1", "0", "/", "2", "0", "0", "0">>)
PointCapital == Str(<<"1", "0", "0", "0", ".", "0", "0">>)

\* the bodies a provider answers with, in the shapes the three services use
BrasilBody ==
    Obj([razao_social |-> ACME, descricao_situacao_cadastral |-> ATIVA,
         data_inicio_atividade |-> IsoDate, capital_social |-> Num(1000),
         cnae_fiscal_principal |-> Obj([codigo |-> Num(6201), descricao |-> Software]),
         logradouro |-> Rua, cep |-> Cep])
CompanyBody == Obj([company |-> Obj([name |-> ACME]), status |-> OK])
ReceitaBody ==
    Obj([nome |-> ACME, situacao |-> ATIVA, abertura |-> SlashDate,
         capital_social |-> PointCapital,
         atividade_principal |-> Arr(<<Obj([code |-> Num(6201), text |-> Software])>>),
         logradouro |-> Rua])
CnpjWsBody == Obj([razao_social |-> ACME, estabelecimento |-> Obj([cep |-> Cep])])
NamelessBody == Obj([cep |-> Cep])
ErrorBody == Obj([status |-> ERROR, nome |-> ACME, razao_social |-> ACME])
BadPartnersBody == Obj([razao_social |-> ACME, nome |-> ACME, qsa |-> Arr(<<Null>>)])

ProviderBodies ==
    {BrasilBody, CompanyBody, ReceitaBody, CnpjWsBody, NamelessBody, ErrorBody,
     BadPartnersBody, Null}

\* response.json() rejects: the body is not JSON
SyntaxError == [type |-> "syntax error"]

\* how a request ends when the provider or the network reacts
Rejected == [kind |-> "rejected"]
BadStatus == [kind |-> "response", ok |-> FALSE]
Replies ==
    {Rejected, BadStatus, [kind |-> "response", ok |-> TRUE, json |-> SyntaxError]}
    \cup {[kind |-> "response", ok |-> TRUE, json |-> body] : body \in ProviderBodies}

\* how a request ends when the 10 seconds pass first
TimedOut == [kind |-> "timeout"]

\* data.status && data.status === 'ERROR'
ErrorIndicator(data) == Truthy(Member(data, "status")) /\ Member(data, "status") = ERROR

\* `continue`, or the end of the loop: the next provider's turn, or the
\* aggregate failure after the last one
NextProvider(call, reply, t) ==
    IF call.i < Len(apis)
    THEN [call EXCEPT !.pc = "fetch", !.i = @ + 1, !.replies = Append(@, reply)]
    ELSE [pc |-> "done", cnpj |-> call.cnpj, i |-> call.i, requests |-> call.requests,
          replies |-> Append(call.replies, reply), result |-> AllFailed(t)]

\* a usable answer that does not end the loop
SuppliedKeepsLooking(call, reply, dados, t) == NextProvider(call, reply, t)

\* return {...dadosNormalizados, source, official, consultedAt}
Supplied(call, reply, dados, t) ==
    [pc |-> "done", cnpj |-> call.cnpj, i |-> call.i, requests |-> call.requests,
     replies |-> Append(call.replies, reply),
     result |-> [source |-> apis[call.i].name, official |-> apis[call.i].official,
                 consultedAt |-> t] @@ dados]

\* the exception leaves consultarCNPJ
Thrown(call, reply) ==
    [pc |-> "thrown", cnpj |-> call.cnpj, i |-> call.i, requests |-> call.requests,
     replies |-> Append(call.replies, reply)]

\* the loop body with `await response.json()` outside the try block
SettleJsonOutsideTry(call, reply, t) ==
    IF reply.kind # "response" THEN NextProvider(call, reply, t)
    ELSE IF ~reply.ok THEN NextProvider(call, reply, t)
    ELSE IF reply.json = SyntaxError THEN Thrown(call, reply)
    ELSE IF ~Truthy(reply.json) \/ ErrorIndicator(reply.json)
    THEN NextProvider(call, reply, t)
    ELSE IF normalizarDadosCNPJ(reply.json, apis[call.i].name).success
    THEN Supplied(call, reply, normalizarDadosCNPJ(reply.json, apis[call.i].name), t)
    ELSE NextProvider(call, reply, t)

\* the body of the loop from the point where `await fetch` settles
Settle(call, reply, t) ==
    IF reply.kind # "response" THEN NextProvider(call, reply, t)
    ELSE IF ~reply.ok THEN NextProvider(call, reply, t)
    ELSE IF reply.json = SyntaxError THEN NextProvider(call, reply, t)
    ELSE IF ~Truthy(reply.json) \/ ErrorIndicator(reply.json)
    THEN NextProvider(call, reply, t)
    ELSE IF normalizarDadosCNPJ(reply.json, apis[call.i].name).success
    THEN Supplied(call, reply, normalizarDadosCNPJ(reply.json, apis[call.i].name), t)
    ELSE NextProvider(call, reply, t)

\* a request that is never given up
AbandonNever(call, t) == call

\* the request is given up when its timeout passes
Abandon(call, t) == Settle(call, TimedOut, t)

\* consultarCNPJ(cnpj) is called and runs up to its first await
LookupCall(cnpj) ==
    /\ lookup.pc \in {"idle", "done", "thrown"}
    /\ lookup' = IF Len(OnlyDigits(cnpj)) # CnpjDigits
                 THEN [pc |-> "done", cnpj |-> cnpj, i |-> 0, requests |-> << >>,
                       replies |-> << >>, result |-> ValidationFailure]
                 ELSE [pc |-> "fetch", cnpj |-> cnpj, i |-> 1, requests |-> << >>,
                       replies |-> << >>]
    /\ UNCHANGED <<tempLinks, storage, now, res, scoring>>

\* fetch(api.url, {method: 'GET', ..., timeout: 10000}) sends the request
Fetch ==
    /\ lookup.pc = "fetch"
    /\ lookup' = [lookup EXCEPT
                     !.pc = "await",
                     !.requests = Append(@, [api |-> apis[lookup.i].name,
                                             cnpj |-> OnlyDigits(lookup.cnpj)])]
    /\ UNCHANGED <<tempLinks, storage, now, res, scoring>>

\* the provider, or the network, reacts to the request
Reply(reply) ==
    /\ lookup.pc = "await"
    /\ lookup' = Settle(lookup, reply, now)
    /\ UNCHANGED <<tempLinks, storage, now, res, scoring>>

\* nothing came back within the bound
Timeout ==
    /\ lookup.pc = "await"
    /\ lookup' = Abandon(lookup, now)
    /\ UNCHANGED <<tempLinks, storage, now, res, scoring>>

LookupNext ==
    \/ \E cnpj \in Identifiers : LookupCall(cnpj)
    \/ Fetch
    \/ \E reply \in Replies : Reply(reply)
    \/ Timeout
    \/ Tick

LookupSpec == Init /\ [][LookupNext]_vars

\* the event loop runs a continuation that is ready, and a timer that was set
\* fires; a provider is not obliged to answer
LookupFairSpec ==
    /\ LookupSpec
    /\ WF_vars(Fetch)
    /\ WF_vars(Timeout)

----------------------------------------------------------------------------
(* calcularScoreEstimado: text, dates and amounts *)

UpperCase == <<"A", "B", "C", "D", "E", "F", "G", "H", "I", "J", "K", "L", "M",
               "N", "O", "P", "Q", "R", "S", "T", "U", "V", "W", "X", "Y", "Z",
               "Ç", "Ã", "Á", "É", "Í", "Ú">>
LowerCase == <<"a", "b", "c", "d", "e", "f", "g", "h", "i", "j", "k", "l", "m",
               "n", "o", "p", "q", "r", "s", "t", "u", "v", "w", "x", "y", "z",
               "ç", "ã", "á", "é", "í", "ú">>

\* text.toLowerCase()
toLowerCase(text) ==
    [k \in DOMAIN text |->
        IF \E u \in DOMAIN UpperCase : UpperCase[u] = text[k]
        THEN LowerCase[CHOOSE u \in DOMAIN UpperCase : UpperCase[u] = text[k]]
        ELSE text[k]]

\* text.includes(word)
includes(text, word) ==
    \E start \in 0..(Len(text) - Len(word)) :
        SubSeq(text, start + 1, start + Len(word)) = word

\* the number of characters at the head of a text that are digits
LeadingDigits(text) ==
    Cardinality({k \in DOMAIN text : \A j \in 1..k : text[j] \in Digits})

\* the value of a run of digits
RECURSIVE NumberOf(_)
NumberOf(digits) ==
    IF digits = << >> THEN 0
    ELSE NumberOf(SubSeq(digits, 1, Len(digits) - 1)) * 10
            + DigitValue(digits[Len(digits)])

StartDay == 20089      \* the day the process started: 2025-01-01, in days since 1970-01-01
DayMs == 24 * HourMs
YearDays == 365        \* 1000 * 60 * 60 * 24 * 365

\* the day number of a calendar date (days since 1970-01-01)
DaysFromCivil(y, m, d) ==
    LET yy == IF m <= 2 THEN y - 1 ELSE y
        era == yy \div 400
        yoe == yy - era * 400
        mp == IF m > 2 THEN m - 3 ELSE m + 9
        doy == (153 * mp + 2) \div 5 + d - 1
        doe == yoe * 365 + yoe \div 4 - yoe \div 100 + doy
    IN era * 146097 + doe - 719468

InvalidDate == [valid |-> FALSE]
DateOf(y, m, d) ==
    IF m \in 1..12 /\ d \in 1..31
    THEN [valid |-> TRUE, day |-> DaysFromCivil(y, m, d)]
    ELSE InvalidDate

AllDigits(text) == \A k \in DOMAIN text : text[k] \in Digits

\* new Date(text): "YYYY-MM-DD" is read as that date; a text with slashes is
\* read month first, "MM/DD/YYYY"; anything else gives Invalid Date
NewDate(text) ==
    IF /\ Len(text) = 10
       /\ text[5] = "-" /\ text[8] = "-"
       /\ AllDigits(SubSeq(text, 1, 4) \o SubSeq(text, 6, 7) \o SubSeq(text, 9, 10))
    THEN DateOf(NumberOf(SubSeq(text, 1, 4)), NumberOf(SubSeq(text, 6, 7)),
                NumberOf(SubSeq(text, 9, 10)))
    ELSE IF /\ Len(text) = 10
            /\ text[3] = "/" /\ text[6] = "/"
            /\ AllDigits(SubSeq(text, 1, 2) \o SubSeq(text, 4, 5) \o SubSeq(text, 7, 10))
    THEN DateOf(NumberOf(SubSeq(text, 7, 10)), NumberOf(SubSeq(text, 1, 2)),
                NumberOf(SubSeq(text, 4, 5)))
    ELSE InvalidDate

\* whole days from the date to the instant t; (hoje - dataAbertura) in
\* milliseconds is this many days and a rest of less than a day
ElapsedDays(date, t) == StartDay + (t \div DayMs) - date.day

\* anosAtividade >= years, false for Invalid Date (NaN)
AtLeastYears(date, t, years) == date.valid /\ ElapsedDays(date, t) >= years * YearDays

\* Math.floor(anosAtividade)
WholeYears(date, t) == ElapsedDays(date, t) \div YearDays

\* text.replace(/[^\d,]/g, '')
DigitsAndCommas(text) == SelectSeq(text, LAMBDA c : c \in Digits \cup {","})

\* text.replace(',', '.'): the first comma only
ReplaceFirstComma(text) ==
    [k \in DOMAIN text |->
        IF text[k] = "," /\ \A j \in 1..(k - 1) : text[j] # "," THEN "." ELSE text[k]]

NaN == [nan |-> TRUE]

\* parseFloat(text) of a text of digits, commas and points: the digits at its
\* head, then a point and the digits that follow it; NaN when there is no digit
parseFloat(text) ==
    LET whole == SubSeq(text, 1, LeadingDigits(text))
        rest == SubSeq(text, LeadingDigits(text) + 1, Len(text))
        fraction == IF rest # << >> /\ rest[1] = "."
                    THEN SubSeq(Tail(rest), 1, LeadingDigits(Tail(rest)))
                    ELSE << >>
    IN IF whole = << >> /\ fraction = << >>
       THEN NaN
       ELSE [nan |-> FALSE,
             whole |-> NumberOf(whole),
             fractionPositive |-> \E k \in DOMAIN fraction : fraction[k] # "0"]

\* capital >= amount, for a whole amount
AtLeast(capital, amount) == ~capital.nan /\ capital.whole >= amount

\* capital > 0
Positive(capital) == ~capital.nan /\ (capital.whole > 0 \/ capital.fractionPositive)

----------------------------------------------------------------------------
(* calcularScoreEstimado: the score engine *)

BreakdownFields ==
    {"situacao", "tempo_atividade", "capital_social", "atividade_principal", "endereco"}

Ativa == <<"a", "t", "i", "v", "a">>
Suspensa == <<"s", "u", "s", "p", "e", "n", "s", "a">>

\* const atividadesBaixoRisco = [...]
atividadesBaixoRisco ==
    { <<"c", "o", "n", "s", "u", "l", "t", "o", "r", "i", "a">>,
      <<"t", "e", "c", "n", "o", "l", "o", "g", "i", "a">>,
      <<"s", "o", "f", "t", "w", "a", "r", "e">>,
      <<"e", "d", "u", "c", "a", "ç", "ã", "o">>,
      <<"s", "a", "ú", "d", "e">>,
      <<"e", "n", "g", "e", "n", "h", "a", "r", "i", "a">>,
      <<"a", "r", "q", "u", "i", "t", "e", "t", "u", "r", "a">>,
      <<"a", "d", "v", "o", "c", "a", "c", "i", "a">>,
      <<"c", "o", "n", "t", "a", "b", "i", "l", "i", "d", "a", "d", "e">> }

\* const atividadesMedioRisco = [...]
atividadesMedioRisco ==
    { <<"c", "o", "m", "é", "r", "c", "i", "o">>,
      <<"v", "a", "r", "e", "j", "o">>,
      <<"a", "t", "a", "c", "a", "d", "o">>,
      <<"i", "n", "d", "ú", "s", "t", "r", "i", "a">>,
      <<"c", "o", "n", "s", "t", "r", "u", "ç", "ã", "o">>,
      <<"t", "r", "a", "n", "s", "p", "o", "r", "t", "e">>,
      <<"l", "o", "g", "í", "s", "t", "i", "c", "a">>,
      <<"a", "l", "i", "m", "e", "n", "t", "a", "ç", "ã", "o">> }

\* What one of the five blocks does: `pontos` is added to pontuacao, `detalhe`
\* is stored in its field of detalhes and `fatores` is pushed.
Block(pontos, detalhe, fatores) ==
    [pontos |-> pontos, detalhe |-> detalhe, fatores |-> fatores]

Skipped == Block(0, 0, << >>)

\* the status block with the points of a suspended company raised to 15 in
\* pontuacao only
SituacaoBlockHalfChanged(dadosCNPJ) ==
    IF ~Truthy(dadosCNPJ.situacao) THEN Skipped
    ELSE IF includes(toLowerCase(dadosCNPJ.situacao.chars), Ativa)
    THEN Block(30, 30, <<[text |-> "Situacao cadastral ativa"]>>)
    ELSE IF includes(toLowerCase(dadosCNPJ.situacao.chars), Suspensa)
    THEN Block(15, 10, <<[text |-> "Situacao cadastral suspensa"]>>)
    ELSE Block(0, 0, <<[text |-> "Situacao cadastral irregular"]>>)

\* 1. Situacao Cadastral
SituacaoBlock(dadosCNPJ) ==
    IF ~Truthy(dadosCNPJ.situacao) THEN Skipped
    ELSE IF includes(toLowerCase(dadosCNPJ.situacao.chars), Ativa)
    THEN Block(30, 30, <<[text |-> "Situacao cadastral ativa"]>>)
    ELSE IF includes(toLowerCase(dadosCNPJ.situacao.chars), Suspensa)
    THEN Block(10, 10, <<[text |-> "Situacao cadastral suspensa"]>>)
    ELSE Block(0, 0, <<[text |-> "Situacao cadastral irregular"]>>)

\* 2. Tempo de Atividade; hoje = new Date() is the instant t
TempoBlock(dadosCNPJ, t) ==
    LET dataAbertura == NewDate(dadosCNPJ.dataAbertura.chars)
    IN IF ~Truthy(dadosCNPJ.dataAbertura) THEN Skipped
       ELSE IF AtLeastYears(dataAbertura, t, 5)
       THEN Block(25, 25, <<[text |-> "Empresa com anos de atividade",
                             anos |-> WholeYears(dataAbertura, t)]>>)
       ELSE IF AtLeastYears(dataAbertura, t, 2)
       THEN Block(15, 15, <<[text |-> "Empresa com anos de atividade",
                             anos |-> WholeYears(dataAbertura, t)]>>)
       ELSE IF AtLeastYears(dataAbertura, t, 1)
       THEN Block(8, 8, <<[text |-> "Empresa nova",
                           anos |-> WholeYears(dataAbertura, t)]>>)
       ELSE Block(0, 0, <<[text |-> "Empresa muito recente (menos de 1 ano)"]>>)

\* 3. Capital Social
CapitalBlock(dadosCNPJ) ==
    LET capital == parseFloat(ReplaceFirstComma(DigitsAndCommas(ToText(dadosCNPJ.capitalSocial))))
    IN IF ~Truthy(dadosCNPJ.capitalSocial) THEN Skipped
       ELSE IF AtLeast(capital, 1000000)
       THEN Block(20, 20, <<[text |-> "Capital social elevado (R$ 1M+)"]>>)
       ELSE IF AtLeast(capital, 100000)
       THEN Block(15, 15, <<[text |-> "Capital social adequado (R$ 100K+)"]>>)
       ELSE IF AtLeast(capital, 10000)
       THEN Block(10, 10, <<[text |-> "Capital social moderado (R$ 10K+)"]>>)
       ELSE IF Positive(capital)
       THEN Block(5, 5, <<[text |-> "Capital social baixo"]>>)
       ELSE Block(0, 0, <<[text |-> "Capital social nao informado"]>>)

\* 4. Atividade Principal
AtividadeBlock(dadosCNPJ) ==
    LET atividade == toLowerCase(dadosCNPJ.atividadePrincipal.chars)
    IN IF ~Truthy(dadosCNPJ.atividadePrincipal) THEN Skipped
       ELSE IF \E palavra \in atividadesBaixoRisco : includes(atividade, palavra)
       THEN Block(15, 15, <<[text |-> "Atividade de baixo risco"]>>)
       ELSE IF \E palavra \in atividadesMedioRisco : includes(atividade, palavra)
       THEN Block(10, 10, <<[text |-> "Atividade de medio risco"]>>)
       ELSE Block(5, 5, <<[text |-> "Atividade requer analise especifica"]>>)

\* 5. Endereco Completo
EnderecoBlock(dadosCNPJ) ==
    IF Truthy(dadosCNPJ.endereco.logradouro) /\ Truthy(dadosCNPJ.endereco.cep)
    THEN Block(10, 10, <<[text |-> "Endereco completo informado"]>>)
    ELSE IF Truthy(dadosCNPJ.endereco.logradouro)
    THEN Block(5, 5, <<[text |-> "Endereco parcialmente informado"]>>)
    ELSE Block(0, 0, <<[text |-> "Endereco incompleto"]>>)

Classificacao(pontuacao) ==
    IF pontuacao >= 80 THEN "Excelente"
    ELSE IF pontuacao >= 60 THEN "Bom"
    ELSE IF pontuacao >= 40 THEN "Regular"
    ELSE IF pontuacao >= 20 THEN "Baixo"
    ELSE "Critico"

\* the colors with the cut point of the second one moved from 60 to 70
CorCutMoved(pontuacao) ==
    IF pontuacao >= 80 THEN "#28a745"
    ELSE IF pontuacao >= 70 THEN "#17a2b8"
    ELSE IF pontuacao >= 40 THEN "#ffc107"
    ELSE IF pontuacao >= 20 THEN "#fd7e14"
    ELSE "#dc3545"

Cor(pontuacao) ==
    IF pontuacao >= 80 THEN "#28a745"
    ELSE IF pontuacao >= 60 THEN "#17a2b8"
    ELSE IF pontuacao >= 40 THEN "#ffc107"
    ELSE IF pontuacao >= 20 THEN "#fd7e14"
    ELSE "#dc3545"

gerarRecomendacao(pontuacao, classificacao) ==
    IF pontuacao >= 80 THEN "Recomendado para aprovacao com condicoes preferenciais."
    ELSE IF pontuacao >= 60 THEN "Recomendado para aprovacao com condicoes padrao."
    ELSE IF pontuacao >= 40 THEN "Recomenda-se analise adicional e condicoes restritivas."
    ELSE IF pontuacao >= 20 THEN "Recomenda-se analise criteriosa e garantias adicionais."
    ELSE "Nao recomendado para aprovacao sem analise presencial detalhada."

\* the result for no profile with the breakdown left empty
UnavailableNoBreakdown ==
    [score |-> 0,
     classificacao |-> "Indisponivel",
     fatores |-> <<[text |-> "Dados do CNPJ nao disponiveis"]>>,
     detalhes |-> [field \in {} |-> 0]]

\* the result for no profile, or a profile with success = false
Unavailable ==
    [score |-> 0,
     classificacao |-> "Indisponivel",
     fatores |-> <<[text |-> "Dados do CNPJ nao disponiveis"]>>,
     detalhes |-> [field \in BreakdownFields |-> 0]]

\* the result of the catch block: detalhes is {}
ScoreError ==
    [score |-> 0,
     classificacao |-> "Erro",
     fatores |-> <<[text |-> "Erro no calculo do score"]>>,
     detalhes |-> [field \in {} |-> 0],
     erro |-> "toLowerCase is not a function"]

\* !dadosCNPJ
NoProfile(dadosCNPJ) == "type" \in DOMAIN dadosCNPJ

\* a TypeError is thrown inside the try block: toLowerCase is called on a
\* status or an activity that is set and is not a string
ScoreThrows(dadosCNPJ) ==
    \/ Truthy(dadosCNPJ.situacao) /\ dadosCNPJ.situacao.type # "string"
    \/ Truthy(dadosCNPJ.atividadePrincipal) /\ dadosCNPJ.atividadePrincipal.type # "string"

calcularScoreEstimado(dadosCNPJ, t) ==
    IF NoProfile(dadosCNPJ) \/ ~dadosCNPJ.success THEN Unavailable
    ELSE IF ScoreThrows(dadosCNPJ) THEN ScoreError
    ELSE LET situacao == SituacaoBlock(dadosCNPJ)
             tempo == TempoBlock(dadosCNPJ, t)
             capital == CapitalBlock(dadosCNPJ)
             atividade == AtividadeBlock(dadosCNPJ)
             endereco == EnderecoBlock(dadosCNPJ)
             pontuacao == situacao.pontos + tempo.pontos + capital.pontos
                              + atividade.pontos + endereco.pontos
         IN [score |-> pontuacao,
             classificacao |-> Classificacao(pontuacao),
             cor |-> Cor(pontuacao),
             fatores |-> situacao.fatores \o tempo.fatores \o capital.fatores
                            \o atividade.fatores \o endereco.fatores,
             detalhes |-> [situacao |-> situacao.detalhe,
                           tempo_atividade |-> tempo.detalhe,
                           capital_social |-> capital.detalhe,
                           atividade_principal |-> atividade.detalhe,
                           endereco |-> endereco.detalhe],
             recomendacao |-> gerarRecomendacao(pontuacao, Classificacao(pontuacao)),
             calculadoEm |-> t]

\* the profiles the score engine is given: what normalizarDadosCNPJ can build
\* from a provider's body, field by field
StatusValues ==
    { EmptyText, ATIVA,
      Str(<<"I", "N", "A", "T", "I", "V", "A">>),
      Str(<<"S", "U", "S", "P", "E", "N", "S", "A">>),
      Str(<<"B", "A", "I", "X", "A", "D", "A">>),
      Str(<<"A", "t", "i", "v", "a">>),
      Num(2) }

\* founding dates 3649, 1824, 729, 364 and 100 days before the process
\* started, one fifteen years before it, and two in the providers' other format
DateValues ==
    { EmptyText, IsoDate, SlashDate,
      Str(<<"2", "0", "1", "5", "-", "0", "1", "-", "0", "5">>),
      Str(<<"2", "0", "2", "0", "-", "0", "1", "-", "0", "4">>),
      Str(<<"2", "0", "2", "3", "-", "0", "1", "-", "0", "3">>),
      Str(<<"2", "0", "2", "4", "-", "0", "1", "-", "0", "3">>),
      Str(<<"2", "0", "2", "4", "-", "0", "9", "-", "2", "3">>),
      Str(<<"0", "5", "/", "1", "0", "/", "2", "0", "0", "0">>) }

CapitalValues ==
    { EmptyText, Num(1000), PointCapital,
      Str(<<"1", ".", "0", "0", "0", ".", "0", "0", "0", ",", "0", "0">>),
      Str(<<"5", "0", ".", "0", "0", "0">>),
      Str(<<"0", ",", "5", "0">>),
      Str(<<"0", ",", "0", "0">>) }

AtividadeValues ==
    { EmptyText, Descriptor(Num(6201), Software),
      Str(<<"V", "A", "R", "E", "J", "O">>),
      Str(<<"s", "o", "f", "t", "w", "a", "r", "e", " ", "v", "a", "r", "e", "j", "o">>),
      Str(<<"c", "u", "l", "t", "i", "v", "o">>) }

EnderecoValues ==
    { [logradouro |-> Rua, cep |-> Cep],
      [logradouro |-> Rua, cep |-> EmptyText],
      [logradouro |-> EmptyText, cep |-> Cep] }

Profiles ==
    [success : {TRUE}, razaoSocial : {ACME}, situacao : StatusValues,
     dataAbertura : DateValues, capitalSocial : CapitalValues,
     atividadePrincipal : AtividadeValues, endereco : EnderecoValues]

\* calcularScoreEstimado(null), the failures of the lookup, and profiles
ScoreInputs ==
    {Null, ValidationFailure, AllFailed(0), IncompleteData}
    \cup Profiles
    \cup {normalizarDadosCNPJ(BrasilBody, "BrasilAPI"),
          normalizarDadosCNPJ(CompanyBody, "BrasilAPI"),
          normalizarDadosCNPJ(ReceitaBody, "ReceitaWS")}

ScoreInit ==
    /\ tempLinks = << >>
    /\ storage = {}
    /\ now = 0
    /\ res = Answer("start", NoLink, 0, FALSE, NoReason)
    /\ lookup = NoCall
    /\ scoring \in {[pc |-> "called", dadosCNPJ |-> dadosCNPJ] : dadosCNPJ \in ScoreInputs}

\* calcularScoreEstimado(dadosCNPJ) runs; it is synchronous
Score ==
    /\ scoring.pc = "called"
    /\ scoring' = [pc |-> "returned",
                   dadosCNPJ |-> scoring.dadosCNPJ,
                   result |-> calcularScoreEstimado(scoring.dadosCNPJ, now)]
    /\ UNCHANGED <<tempLinks, storage, now, res, lookup>>

ScoreNext ==
    \/ Score
    \/ Tick

ScoreSpec == ScoreInit /\ [][ScoreNext]_vars

----------------------------------------------------------------------------
(* Properties *)

Keys == DOMAIN tempLinks

Expired(link, t) == t > link.expiresAt
Exhausted(link) == link.downloads >= link.maxDownloads

\* C1: in every reachable state of the server every record of the registry
\* has downloads <= maxDownloads.
C1_DownloadsWithinLimit ==
    \A id \in Keys : tempLinks[id].downloads <= tempLinks[id].maxDownloads

\* a download was just served and it used up the last permitted download
C1_Witness ==
    /\ res.op \in {"file", "zip"}
    /\ res.status = 200
    /\ res.linkId \in Keys
    /\ tempLinks[res.linkId].downloads = tempLinks[res.linkId].maxDownloads

\* a link is dead when it is past its expiry, exhausted or inactive
Dead(id) ==
    /\ id \in Keys
    /\ \/ Expired(tempLinks[id], now)
       \/ Exhausted(tempLinks[id])
       \/ ~tempLinks[id].active

\* C2: once a link is past its expiry time, or has downloads >= maxDownloads,
\* or has active = false, a validate of that id never answers valid = true
\* again, and the active flag of a record never goes from false back to true.
C2_DeathIsPermanent ==
    [][\A id \in LinkIds :
          /\ Dead(id) => ~validateTempLink(tempLinks, id, now).valid'
          /\ (id \in Keys /\ ~tempLinks[id].active /\ id \in Keys')
                => ~tempLinks[id].active']_vars

\* the failure conditions of a validate of `id` at time t, by priority rank
FailureRanks(links, id, t) ==
    (IF id \notin DOMAIN links THEN {1} ELSE {})
    \cup (IF id \in DOMAIN links /\ ~links[id].active THEN {2} ELSE {})
    \cup (IF id \in DOMAIN links /\ Expired(links[id], t) THEN {3} ELSE {})
    \cup (IF id \in DOMAIN links /\ Exhausted(links[id]) THEN {4} ELSE {})

ReasonOfRank(r) ==
    CASE r = 1 -> ReasonNotFound
      [] r = 2 -> ReasonDeactivated
      [] r = 3 -> ReasonExpired
      [] r = 4 -> ReasonLimit

FirstRank(ranks) == CHOOSE r \in ranks : \A q \in ranks : r <= q

\* C3: a validate answers with the reason of the earliest failure condition in
\* the order not found, deactivated, expired, download limit reached that
\* holds when it is called, and answers valid = true exactly when none holds.
C3_ReasonPriority ==
    [][res'.op = "validate" =>
          LET ranks == FailureRanks(tempLinks, res'.linkId, now)
          IN IF ranks = {}
             THEN res'.valid /\ res'.reason = NoReason
             ELSE ~res'.valid /\ res'.reason = ReasonOfRank(FirstRank(ranks))]_vars

\* a validate answered "expired" for a record that is also exhausted
C3_Witness ==
    /\ res.op = "validate"
    /\ res.reason = ReasonExpired
    /\ res.linkId \in Keys
    /\ Exhausted(tempLinks[res.linkId])

Served(r) == r.op \in {"file", "zip"} /\ r.status = 200

\* C5: a link issued by the server (maxDownloads = 5) starts with no download
\* counted; while it has not expired, each of the first five download requests
\* passes validate and is counted, and the request after the fifth is refused
\* with "download limit reached".
C5_FiveDownloadsThenLimit ==
    [][/\ (res'.op = "post" /\ res'.linkId # NoLink) =>
              /\ tempLinks'[res'.linkId].downloads = 0
              /\ tempLinks'[res'.linkId].maxDownloads = 5
       /\ \A id \in Keys :
            (~Expired(tempLinks[id], now) /\ tempLinks[id].maxDownloads = 5) =>
              /\ tempLinks[id].downloads < 5 => tempLinks[id].active
              /\ (res'.op = "zip" /\ res'.linkId = id /\ tempLinks[id].downloads < 5) =>
                    /\ Served(res')
                    /\ tempLinks'[id].downloads = tempLinks[id].downloads + 1
                    /\ tempLinks'[id].active
              /\ (res'.op \in {"page", "file", "zip"} /\ res'.linkId = id
                    /\ tempLinks[id].downloads = 5 /\ tempLinks[id].active) =>
                    /\ ~res'.valid
                    /\ res'.reason = ReasonLimit]_vars

\* the sixth request on an unexpired link was refused for the limit
C5_Witness ==
    /\ res.op = "zip"
    /\ res.reason = ReasonLimit
    /\ res.linkId \in Keys
    /\ tempLinks[res.linkId].downloads = 5
    /\ ~Expired(tempLinks[res.linkId], now)

\* a record issued with ttlHours = 0: it expires at the instant it was created
ZeroTtl(link) == link.expiresAt = link.createdAt

\* C6: a link issued with ttlHours = 0 is never reported valid: a validate of
\* it, also one made at the clock instant of the issue, answers valid = false
\* and leaves the record with active = false.
C6_ZeroTtlNeverValid ==
    (/\ res.op = "validate"
     /\ res.linkId \in Keys
     /\ ZeroTtl(tempLinks[res.linkId])) =>
        /\ ~res.valid
        /\ ~tempLinks[res.linkId].active

\* C7: when sweep runs while a link is expired, every file of that link is
\* gone from storage afterwards, its id is no longer a key of the registry and
\* a validate of that id answers "not found".
C7_SweepRemovesExpired ==
    [][res'.op = "sweep" =>
          \A id \in Keys :
             Expired(tempLinks[id], now) =>
                /\ id \notin Keys'
                /\ PathsOf(tempLinks[id].files) \cap storage' = {}
                /\ validateTempLink(tempLinks', id, now').reason = ReasonNotFound]_vars

\* C8: immediately after any sweep pass no record left in the registry has
\* downloads >= maxDownloads.
C8_SweepEvictsExhausted ==
    res.op = "sweep" => \A id \in Keys : ~Exhausted(tempLinks[id])

\* C8 as amended: a sweep pass removes exactly the records that are past their
\* expiry time or inactive, and leaves every other record as it was; a record
\* that is exhausted but still active and unexpired stays.
C8_SweepEvictsExpiredOrInactive ==
    [][res'.op = "sweep" =>
          /\ Keys' = {id \in Keys : tempLinks[id].active /\ ~Expired(tempLinks[id], now)}
          /\ \A id \in Keys' : tempLinks'[id] = tempLinks[id]]_vars

\* a sweep pass has just left an exhausted record in the registry
C8_Witness ==
    /\ res.op = "sweep"
    /\ \E id \in Keys : Exhausted(tempLinks[id])

\* C9: issue never returns an identifier that is already a key of the
\* registry; it leaves every existing record unchanged and adds exactly one
\* record, with downloads = 0 and active = true.
C9_IssueIsFresh ==
    [][res'.op = "issue" =>
          /\ res'.linkId \notin Keys
          /\ Keys' = Keys \cup {res'.linkId}
          /\ \A id \in Keys : tempLinks'[id] = tempLinks[id]
          /\ tempLinks'[res'.linkId].downloads = 0
          /\ tempLinks'[res'.linkId].active]_vars

\* the fields of a record other than downloads
OtherFields(link) ==
    <<link.files, link.createdAt, link.maxDownloads, link.expiresAt, link.active>>

\* C10: consume(linkId) adds exactly one to downloads of the matching record,
\* whatever its limit, expiry and active flag, and changes no other field, no
\* other record and no file; when the id is absent it changes nothing.
C10_ConsumeOnlyCounts ==
    [][res'.op = "consume" =>
          /\ Keys' = Keys
          /\ storage' = storage
          /\ \A id \in Keys :
               /\ OtherFields(tempLinks'[id]) = OtherFields(tempLinks[id])
               /\ tempLinks'[id].downloads =
                     tempLinks[id].downloads + (IF id = res'.linkId THEN 1 ELSE 0)]_vars

\* a consume has just counted a download past the limit of an inactive record
C10_Witness ==
    /\ res.op = "consume"
    /\ res.linkId \in Keys
    /\ tempLinks[res.linkId].downloads > tempLinks[res.linkId].maxDownloads
    /\ ~tempLinks[res.linkId].active

\* a consume of an id that is not in the registry, beside an existing record
C10_WitnessAbsent ==
    /\ res.op = "consume"
    /\ res.linkId \notin Keys
    /\ Keys # {}

----------------------------------------------------------------------------
(* Properties of the lookup *)

\* the number of digit characters of an identifier
DigitCount(cnpj) == Cardinality({k \in DOMAIN cnpj : cnpj[k] \in Digits})

\* the providers' names in list order
ApiNames == [k \in DOMAIN apis |-> apis[k].name]

\* C11: for every identifier whose digits-only form is not exactly 14 digits
\* long, lookup returns success = false with the validation source and
\* contacts no provider.
C11_MalformedIdentifier ==
    (lookup.pc # "idle" /\ DigitCount(lookup.cnpj) # 14) =>
        /\ lookup.pc = "done"
        /\ ~lookup.result.success
        /\ lookup.result.source = SourceValidation
        /\ lookup.requests = << >>

\* a 14-character identifier with 13 digits was refused
C11_Witness ==
    /\ lookup.pc = "done"
    /\ Len(lookup.cnpj) = 14
    /\ DigitCount(lookup.cnpj) = 13
    /\ lookup.result.source = SourceValidation

\* the reply let the loop reach `return {...dadosNormalizados, ...}`
Usable(reply, apiName) ==
    /\ reply.kind = "response"
    /\ reply.ok
    /\ reply.json # SyntaxError
    /\ Truthy(reply.json)
    /\ ~ErrorIndicator(reply.json)
    /\ normalizarDadosCNPJ(reply.json, apiName).success

\* C12: lookup contacts the providers one at a time in list order, each at
\* most once, and stops at the first successful normalization: the profile
\* returned names that provider as source with its official flag, and no
\* provider later in the list is contacted.
C12_FirstSuccessWins ==
    lookup.pc # "idle" =>
        /\ Len(lookup.requests) <= Len(apis)
        /\ \A k \in DOMAIN lookup.requests : lookup.requests[k].api = ApiNames[k]
        /\ Len(lookup.requests) - Len(lookup.replies) =
               (IF lookup.pc = "await" THEN 1 ELSE 0)
        /\ \A k \in DOMAIN lookup.replies :
              Usable(lookup.replies[k], ApiNames[k]) =>
                 /\ k = Len(lookup.requests)
                 /\ lookup.pc = "done"
                 /\ lookup.result.success
                 /\ lookup.result.source = ApiNames[k]
                 /\ lookup.result.official = apis[k].official
        /\ (lookup.pc = "done" /\ lookup.result.success) =>
              Usable(lookup.replies[Len(lookup.replies)], ApiNames[Len(lookup.replies)])

\* the second provider supplied the profile after the first had failed
C12_Witness ==
    /\ lookup.pc = "done"
    /\ lookup.result.success
    /\ lookup.result.source = "ReceitaWS"
    /\ ~lookup.result.official
    /\ Len(lookup.requests) = 2

\* C13: every provider-level failure (transport error, timeout, non-success
\* status, unparsable body, empty body, error indicator, normalization without
\* a legal name) makes lookup go on to the next provider, or to the aggregate
\* failure after the last one; no exception reaches the caller of lookup.
C13_FailuresAbsorbed ==
    [][(lookup.pc = "await" /\ lookup'.pc # "await") =>
          LET reply == lookup'.replies[Len(lookup'.replies)]
          IN ~Usable(reply, ApiNames[lookup.i]) =>
                IF lookup.i < Len(apis)
                THEN /\ lookup'.pc = "fetch"
                     /\ lookup'.i = lookup.i + 1
                ELSE /\ lookup'.pc = "done"
                     /\ lookup'.result.source = SourceAllFailed]_vars

\* a body whose partner list breaks the normalization, a body that is not JSON
\* and a provider that kept silent, one after the other
C13_Witness ==
    /\ lookup.pc = "done"
    /\ lookup.result.source = SourceAllFailed
    /\ lookup.replies[1] = [kind |-> "response", ok |-> TRUE, json |-> BadPartnersBody]
    /\ lookup.replies[2] = [kind |-> "response", ok |-> TRUE, json |-> SyntaxError]
    /\ lookup.replies[3] = TimedOut

\* C14: when every provider fails for a 14-digit identifier, lookup returns
\* one failure result with success = false, the all-providers-failed source
\* and a timestamp, after having contacted every provider exactly once.
C14_AllProvidersFailed ==
    (/\ lookup.pc \notin {"idle", "fetch", "await"}
     /\ Len(lookup.replies) = Len(apis)
     /\ \A k \in DOMAIN lookup.replies : ~Usable(lookup.replies[k], ApiNames[k])) =>
        /\ lookup.pc = "done"
        /\ ~lookup.result.success
        /\ lookup.result.source = SourceAllFailed
        /\ "consultedAt" \in DOMAIN lookup.result
        /\ lookup.result.consultedAt \in 0..now
        /\ [k \in DOMAIN lookup.requests |-> lookup.requests[k].api] = ApiNames

\* three providers answered with a bad status and the lookup gave up
C14_Witness ==
    /\ lookup.pc = "done"
    /\ lookup.replies = <<BadStatus, BadStatus, BadStatus>>
    /\ lookup.result.source = SourceAllFailed
    /\ now > 0

\* the body carries a legal name where the provider's service puts it
CarriesLegalName(json, apiName) ==
    CASE apiName = "BrasilAPI" ->
            Truthy(Member(json, "razao_social")) \/ Truthy(Member(Member(json, "company"), "name"))
      [] apiName = "ReceitaWS" -> Truthy(Member(json, "nome"))
      [] apiName = "CNPJ.ws" -> Truthy(Member(json, "razao_social"))

\* a success response with a well-formed body that carries a legal name
GoodAnswer(reply, apiName) ==
    /\ reply.kind = "response"
    /\ reply.ok
    /\ reply.json # SyntaxError
    /\ reply.json.type = "object"
    /\ ~ErrorIndicator(reply.json)
    /\ ~MapThrows(Member(reply.json, "qsa"))
    /\ CarriesLegalName(reply.json, apiName)

\* C15: every provider of the list can supply the answer: when the providers
\* before it have failed and it answers with a success response whose body
\* carries a legal name, lookup returns success = true with it as source.
C15_EveryProviderCanServe ==
    \A k \in DOMAIN apis :
       (/\ lookup.pc \notin {"idle", "fetch", "await"}
        /\ Len(lookup.replies) = k
        /\ GoodAnswer(lookup.replies[k], ApiNames[k])) =>
           /\ lookup.pc = "done"
           /\ lookup.result.success
           /\ lookup.result.source = ApiNames[k]

----------------------------------------------------------------------------
(* Properties of the score engine *)

\* the score engine was given no usable profile
NotScorable(dadosCNPJ) == NoProfile(dadosCNPJ) \/ ~dadosCNPJ.success

\* the score engine was given a profile with success = true
Scored == scoring.pc = "returned" /\ ~NotScorable(scoring.dadosCNPJ)

\* C17: score applied to no profile, or to a profile with success = false,
\* returns total score 0, the "unavailable" classification, exactly one factor
\* message and a breakdown whose five fields are all 0.
C17_Unavailable ==
    (scoring.pc = "returned" /\ NotScorable(scoring.dadosCNPJ)) =>
        /\ scoring.result.score = 0
        /\ scoring.result.classificacao = "Indisponivel"
        /\ Len(scoring.result.fatores) = 1
        /\ DOMAIN scoring.result.detalhes = BreakdownFields
        /\ \A field \in BreakdownFields : scoring.result.detalhes[field] = 0

\* the aggregate failure of the lookup was scored
C17_Witness ==
    /\ scoring.pc = "returned"
    /\ scoring.dadosCNPJ = AllFailed(0)
    /\ scoring.result.score = 0

\* no profile at all was scored
C17_WitnessNoProfile ==
    /\ scoring.pc = "returned"
    /\ scoring.dadosCNPJ = Null
    /\ scoring.result.score = 0

Weight ==
    [situacao |-> 30, tempo_atividade |-> 25, capital_social |-> 20,
     atividade_principal |-> 15, endereco |-> 10]

RECURSIVE SumOver(_, _)
SumOver(values, fields) ==
    IF fields = {} THEN 0
    ELSE LET field == CHOOSE f \in fields : TRUE
         IN values[field] + SumOver(values, fields \ {field})

C18_WitnessFull ==
    /\ Scored
    /\ scoring.result.score = 100

\* the catch block answered
C18_WitnessError ==
    /\ Scored
    /\ scoring.result.classificacao = "Erro"

\* C19: the status sub-score of a successful profile is 30 when the status
\* text contains the active keyword, 15 when it contains the suspended keyword
\* and 0 for anything else.
C19_StatusSubScore ==
    (/\ Scored
     /\ scoring.dadosCNPJ.situacao.type = "string"
     /\ "situacao" \in DOMAIN scoring.result.detalhes) =>
        scoring.result.detalhes.situacao =
            (IF includes(toLowerCase(scoring.dadosCNPJ.situacao.chars), Ativa) THEN 30
             ELSE IF includes(toLowerCase(scoring.dadosCNPJ.situacao.chars), Suspensa) THEN 15
             ELSE 0)

\* C20: the longevity sub-score of a successful profile with a founding date
\* is 25 for 10 or more years of activity, 20 for at least 5 and less than 10,
\* 15 for at least 2 and less than 5, and 5 for less than 2 years, a year being
\* 365 elapsed days.
C20_LongevitySubScore ==
    (/\ Scored
     /\ "tempo_atividade" \in DOMAIN scoring.result.detalhes
     /\ Truthy(scoring.dadosCNPJ.dataAbertura)
     /\ NewDate(scoring.dadosCNPJ.dataAbertura.chars).valid) =>
        LET days == ElapsedDays(NewDate(scoring.dadosCNPJ.dataAbertura.chars),
                                scoring.result.calculadoEm)
        IN scoring.result.detalhes.tempo_atividade =
              (IF days >= 3650 THEN 25
               ELSE IF days >= 1825 THEN 20
               ELSE IF days >= 730 THEN 15
               ELSE 5)

\* the separators of a capital amount
Separators == {",", "."}

\* where the last separator of the text stands, 0 when it has none
LastSeparator(text) ==
    IF \E k \in DOMAIN text : text[k] \in Separators
    THEN CHOOSE k \in DOMAIN text :
            /\ text[k] \in Separators
            /\ \A j \in (k + 1)..Len(text) : text[j] \notin Separators
    ELSE 0

\* The numeric value of a capital amount as it is written: a separator with
\* exactly three digits behind it groups thousands, the last separator with
\* any other number of digits behind it is the decimal separator, comma or
\* point.  A text without a digit has no value.
AmountOf(text) ==
    LET last == LastSeparator(text)
        decimal == last > 0 /\ Len(text) - last # 3
        whole == SelectSeq(IF decimal THEN SubSeq(text, 1, last - 1) ELSE text,
                           LAMBDA c : c \in Digits)
        fraction == IF decimal THEN SubSeq(text, last + 1, Len(text)) ELSE << >>
    IN IF SelectSeq(text, LAMBDA c : c \in Digits) = << >>
       THEN NaN
       ELSE [nan |-> FALSE,
             whole |-> NumberOf(whole),
             fractionPositive |-> \E k \in DOMAIN fraction : fraction[k] \in Digits \ {"0"}]

\* the capital sub-score of an amount by the bands of the criteria
CapitalBand(amount) ==
    IF AtLeast(amount, 1000000) THEN 20
    ELSE IF AtLeast(amount, 100000) THEN 15
    ELSE IF AtLeast(amount, 10000) THEN 10
    ELSE IF Positive(amount) THEN 5
    ELSE 0

\* C21: the capital sub-score of a successful profile is fixed by the numeric
\* value of the capital amount, thousands separators stripped and comma or
\* point read as the decimal separator: 20 from 1,000,000, 15 from 100,000,
\* 10 from 10,000, 5 for a positive value below 10,000, and 0 for a zero,
\* absent or unparsable amount.
C21_CapitalSubScore ==
    (Scored /\ "capital_social" \in DOMAIN scoring.result.detalhes) =>
        scoring.result.detalhes.capital_social =
            CapitalBand(AmountOf(ToText(scoring.dadosCNPJ.capitalSocial)))

\* the activity sub-score of a descriptor by its keywords
ActivityBand(text) ==
    IF \E palavra \in atividadesBaixoRisco : includes(toLowerCase(text), palavra) THEN 15
    ELSE IF \E palavra \in atividadesMedioRisco : includes(toLowerCase(text), palavra) THEN 10
    ELSE 5

\* C22: the primary-activity sub-score of every successful profile is 15 when
\* the activity descriptor matches a low-risk keyword, also when a medium-risk
\* keyword matches too, 10 when it matches only a medium-risk keyword, and 5
\* in every other case; it is never 0.
C22_ActivitySubScore ==
    (/\ Scored
     /\ "atividade_principal" \in DOMAIN scoring.result.detalhes
     /\ scoring.dadosCNPJ.atividadePrincipal.type = "string") =>
        /\ scoring.result.detalhes.atividade_principal =
              ActivityBand(scoring.dadosCNPJ.atividadePrincipal.chars)
        /\ scoring.result.detalhes.atividade_principal # 0

Bands == {"Excelente", "Bom", "Regular", "Baixo", "Critico"}

\* the band of a total by the cut points 80, 60, 40 and 20
BandOf(total) ==
    IF total >= 80 THEN "Excelente"
    ELSE IF total >= 60 THEN "Bom"
    ELSE IF total >= 40 THEN "Regular"
    ELSE IF total >= 20 THEN "Baixo"
    ELSE "Critico"

BandColor ==
    [Excelente |-> "#28a745", Bom |-> "#17a2b8", Regular |-> "#ffc107",
     Baixo |-> "#fd7e14", Critico |-> "#dc3545"]

BandRecommendation ==
    [Excelente |-> "Recomendado para aprovacao com condicoes preferenciais.",
     Bom |-> "Recomendado para aprovacao com condicoes padrao.",
     Regular |-> "Recomenda-se analise adicional e condicoes restritivas.",
     Baixo |-> "Recomenda-se analise criteriosa e garantias adicionais.",
     Critico |-> "Nao recomendado para aprovacao sem analise presencial detalhada."]

IsActive(status) == toLowerCase(status) = Ativa

\* the registration status is the suspended one
IsSuspended(status) == toLowerCase(status) = Suspensa

\* C27: the status sub-score of a successful profile is 30 only when the
\* registration status is active, and a status that is neither active nor
\* suspended, such as "INATIVA" or "BAIXADA", scores 0.
C27_OnlyActiveScoresThirty ==
    (/\ Scored
     /\ scoring.dadosCNPJ.situacao.type = "string"
     /\ "situacao" \in DOMAIN scoring.result.detalhes) =>
        LET status == scoring.dadosCNPJ.situacao.chars
        IN /\ scoring.result.detalhes.situacao = 30 => IsActive(status)
           /\ (~IsActive(status) /\ ~IsSuspended(status)) =>
                 scoring.result.detalhes.situacao = 0

----------------------------------------------------------------------------
(* Properties of the request handlers *)

\* C25: in the download routes the counter of a link is raised only by a
\* request that passed validation and delivered a file: a request whose
\* transfer fails, or that delivers no file, as every request of the ZIP route,
\* leaves the counter as it was.
C25_CountsOnlyDeliveredFiles ==
    [][\A id \in DOMAIN tempLinks \cap DOMAIN tempLinks' :
          tempLinks'[id].downloads > tempLinks[id].downloads =>
             /\ res'.op = "file"
             /\ res'.linkId = id
             /\ res'.valid
             /\ res'.status = 200]_vars

\* C26: a storage failure while the sweep deletes one file never ends the
\* pass: every other file of the records it removes is deleted (the files left
\* are as many as the failures logged), every expired or inactive record,
\* the one with the failing file too, is removed from the registry, and the
\* sweep returns normally.
C26_SweepSurvivesStorageFailure ==
    [][res'.op = "sweep" =>
          LET paths == CleanupPaths(tempLinks, now, storage)
          IN /\ Keys' = Keys \ CleanupVictims(tempLinks, now)
             /\ storage \ paths \subseteq storage'
             /\ storage' \subseteq storage
             /\ Cardinality(paths \cap storage') = res'.status]_vars

\* a sweep in which one file could not be deleted: the other file is gone and
\* so is the record
C26_Witness ==
    /\ res.op = "sweep"
    /\ res.status = 1
    /\ Cardinality(storage) = 1
    /\ Keys = {}

\* C29: in every reachable state every record for which validateTempLink
\* would answer valid = true has all of its files in storage: the files of a
\* registered link are deleted only by the sweep that removes its record, also
\* when the request handler fails after it issued the link.
C29_LiveLinksKeepTheirFiles ==
    \A id \in Keys :
        validateTempLink(tempLinks, id, now).valid =>
            PathsOf(tempLinks[id].files) \subseteq storage

\* what C28 says of one request of the consultancy handler
OneRecordPerAcceptedRequest(names, isValid) ==
    IF isValid /\ Len(names) > 0
    THEN \E id \in Keys' \ Keys :
            /\ Keys' = Keys \cup {id}
            /\ tempLinks'[id].files = UploadedFiles(names, now)
            /\ PathsOf(tempLinks'[id].files) = {UploadPath(now, names[i]) : i \in DOMAIN names}
            /\ tempLinks'[id].maxDownloads = 5
            /\ \A other \in Keys : tempLinks'[other] = tempLinks[other]
    ELSE tempLinks' = tempLinks

\* C28: the consultancy request handler issues a link exactly when the form
\* passed validation and at least one file was uploaded: a request without
\* files, or one that validation rejects, leaves the registry as it was, and
\* each accepted request with files adds exactly one record, which holds all
\* of its files and has maxDownloads = 5.
C28_LinkIffValidWithFiles ==
    [][\A names \in UploadChoices, isValid, throws \in BOOLEAN :
          PostConsultoria(names, isValid, throws) =>
              OneRecordPerAcceptedRequest(names, isValid)]_vars

\* the record is active and not past its expiry time
Alive(link, t) == link.active /\ ~Expired(link, t)

\* C30: the sweep touches only dead links: every record that is active and
\* not past its expiry time when the sweep runs is in the registry afterwards
\* with the same fields and none of its files is deleted, and a second sweep
\* right after the first changes neither the registry nor the storage.
C30_SweepTouchesOnlyDeadLinks ==
    [][res'.op = "sweep" =>
          /\ \A id \in Keys :
                Alive(tempLinks[id], now) =>
                   /\ id \in Keys'
                   /\ tempLinks'[id] = tempLinks[id]
                   /\ PathsOf(tempLinks[id].files) \cap storage \subseteq storage'
          /\ res.op = "sweep" => (tempLinks' = tempLinks /\ storage' = storage)]_vars

====
